---- MODULE Spec2Model ----
(***************************************************************************)
(* AppendOnlyFSLogger (src/append-fs-logger.js): a size-bounded,           *)
(* append-only log file writer.                                            *)
(*                                                                         *)
(* The model follows Node's run-to-completion scheduling.  User calls      *)
(* (open, writeLog, flush, destroy) run their synchronous prefix as one    *)
(* step; every awaited I/O operation completes in a later step; the        *)
(* continuations of the promises a step settled are queued on mq and run   *)
(* one by one, in registration order, before any other I/O completion.     *)
(*                                                                         *)
(* Bytes are numbers: newLineByte is '\n', DataByte(c) is a byte of the    *)
(* line serialised by call c, ForeignByte a byte of a line that was in the *)
(* file before this process started.  The two caps keep the arithmetic of  *)
(* the source (>=, floor(cap / 4), first offset > floor(cap / 4)) but are  *)
(* scaled down so that a handful of lines reaches them.                    *)
(***************************************************************************)
EXTENDS Integers, Sequences, FiniteSets, TLC

\* ---- program constants (scaled, see above) ------------------------------
MAX_LOG_FILE_SIZE == 8
MAX_LOG_LINES == 4
MAX_LOG_LINE_SIZE == 6

\* ---- bounds of the exploration ------------------------------------------
\* events of a run: user calls of a level method or of flush(), and I/O
\* operations that fail or transfer fewer bytes than asked
MaxEvents == 5
\* size of the descriptor table
MaxFd == 3
\* lengths a serialised line may have
LineLens == {1, 2}

NULL == 0
NoFile == <<-1>>

newLineByte == 10
DataByte(c) == 20 + c
ForeignByte == DataByte(0)

VARIABLES
    fd, lines, size, bytesWritten, writeCalled, newLineOffsets,
    pendingFlush, pendingWrites, hasOpened,
    file, tmp, fdTable,
    rounds, opens, destroys, mq, inUserTick,
    calls, bursts, onErrors, events, budget, args

loggerVars == <<fd, lines, size, bytesWritten, writeCalled, newLineOffsets,
                pendingFlush, pendingWrites, hasOpened>>
fsVars == <<file, tmp, fdTable>>
vars == <<fd, lines, size, bytesWritten, writeCalled, newLineOffsets,
          pendingFlush, pendingWrites, hasOpened, file, tmp, fdTable,
          rounds, opens, destroys, mq, inUserTick, calls, bursts,
          onErrors, events, budget, args>>

\* ---- pure helpers --------------------------------------------------------

\* A log file found at the path: absent, two complete lines, or one long
\* fragment that does not end in '\n'.
InitialFiles ==
    { NoFile,
      <<ForeignByte, newLineByte, ForeignByte, ForeignByte, newLineByte>>,
      [i \in 1..(MAX_LOG_FILE_SIZE - 1) |-> ForeignByte] }

\* JSON.stringify of one LogLine: a non-empty run of bytes without '\n'.
LineString(c, len) == [i \in 1..len |-> DataByte(c)]

RECURSIVE JoinLinesReversed(_)
JoinLinesReversed(ws) ==
    IF ws = <<>> THEN <<>>
    ELSE JoinLinesReversed(Tail(ws)) \o Head(ws) \o <<newLineByte>>

\* pendingWrites.join('\n') + '\n'
RECURSIVE JoinLines(_)
JoinLines(ws) ==
    IF ws = <<>> THEN <<newLineByte>>
    ELSE IF Len(ws) = 1 THEN Head(ws) \o <<newLineByte>>
    ELSE Head(ws) \o <<newLineByte>> \o JoinLines(Tail(ws))

RECURSIVE ScanNewLinesFromOne(_, _, _)
ScanNewLinesFromOne(buf, n, base) ==
    IF n = 0 THEN <<>>
    ELSE IF buf[n] = newLineByte
         THEN Append(ScanNewLinesFromOne(buf, n - 1, base), base + n)
         ELSE ScanNewLinesFromOne(buf, n - 1, base)

\* for (i = 0; i < n; i++) if (buf[i] === newLineByte) push(base + i)
RECURSIVE ScanNewLines(_, _, _)
ScanNewLines(buf, n, base) ==
    IF n = 0 THEN <<>>
    ELSE IF buf[n] = newLineByte
         THEN Append(ScanNewLines(buf, n - 1, base), base + n - 1)
         ELSE ScanNewLines(buf, n - 1, base)

\* The lowest descriptor number that is not open.
FreeFd(tbl) == CHOOSE d \in 1..MaxFd : tbl[d] = "closed" /\
                   \A e \in 1..MaxFd : tbl[e] = "closed" => d <= e

HasFreeFd(tbl) == \E d \in 1..MaxFd : tbl[d] = "closed"

\* Outcomes an I/O operation may have: it can fail while events remain.
Outcomes == IF events > 0 THEN {TRUE, FALSE} ELSE {TRUE}

InFlight(r) == r.pc \notin {"ok", "err", "rejected"}

\* The state after construction, for a caller that makes at most b.opens
\* calls of open(), b.destroys calls of destroy() and b.logs level-method
\* calls with arbitrary arguments, with e events.
InitWith(b, e) ==
    /\ fd = NULL
    /\ lines = 0
    /\ size = 0
    /\ bytesWritten = 0
    /\ writeCalled = 0
    /\ newLineOffsets = <<>>
    /\ pendingFlush = NULL
    /\ pendingWrites = <<>>
    /\ hasOpened = FALSE
    /\ file \in InitialFiles
    /\ tmp = NoFile
    /\ fdTable = [d \in 1..MaxFd |-> "closed"]
    /\ rounds = <<>>
    /\ opens = <<>>
    /\ destroys = <<>>
    /\ mq = <<>>
    /\ inUserTick = FALSE
    /\ calls = <<>>
    /\ bursts = [run |-> 0, of |-> <<>>]
    /\ onErrors = 0
    /\ events = e
    /\ budget = b
    /\ args = <<>>

Init == InitWith([opens |-> 1, destroys |-> 0], MaxEvents)


\* ---- promises ------------------------------------------------------------

\* The async function _flush has returned or thrown: its promise is settled
\* and the continuations registered on it are queued, in registration order.
Settle(rs, n, outcome, ioFailed) ==
    [rs EXCEPT ![n].pc = outcome, ![n].reactions = <<>>,
               ![n].failed = ioFailed]

Reactions(rs, n) ==
    [i \in 1..Len(rs[n].reactions) |->
        [t |-> rs[n].reactions[i].t, c |-> rs[n].reactions[i].c, n |-> n]]

\* Calls are numbered in issue order: level-method calls 1, 2, ..., flush()
\* calls -1, -2, ...  calls maps a call to the state of its promise.
IsWrite(c) == c > 0
SetCall(cs, c, st) == [cs EXCEPT ![c] = st]
NewCall(cs, c) == cs @@ (c :> "pending")

\* The logger is open and idle: nothing queued, no flush pending.
Idle == fd # NULL /\ pendingFlush = NULL /\ pendingWrites = <<>> /\ mq = <<>>

\* Bookkeeping of synchronous runs of level-method calls: bursts.of[c] is the
\* first call of the run call c belongs to when that run began on an idle
\* logger, and 0 otherwise; bursts.run is the run being issued, if any.
RunOf(c) == IF bursts.run # 0 THEN bursts.run ELSE IF Idle THEN c ELSE 0
EndRun == bursts' = [bursts EXCEPT !.run = 0]

\* ---- open() --------------------------------------------------------------

\* The fields of the logger that open() may assign, as they are when it is
\* called.
StateAtCall == [lines |-> lines, size |-> size, offs |-> newLineOffsets,
                opened |-> hasOpened]

\* The calls of open() among os that have not returned.
InProgress(os) == {q \in 1..Len(os) : os[q].pc # "done"}

OpenStartUnchecked(os, owner) ==
    Append(os, [pc |-> "mkdir", owner |-> owner, res |-> "none",
                code |-> "none", bail |-> FALSE,
                during |-> InProgress(os), at |-> StateAtCall])

\* The synchronous prefix of open(), called by owner (0: the user; n: the
\* truncation of round n).  The record is appended to os.
OpenStart(os, owner) ==
    IF fd # NULL
    THEN Append(os, [pc |-> "done", owner |-> owner, res |-> "twice",
                     code |-> "none", bail |-> FALSE,
                during |-> InProgress(os), at |-> StateAtCall])
    ELSE Append(os, [pc |-> "mkdir", owner |-> owner, res |-> "none",
                code |-> "none", bail |-> FALSE,
                during |-> InProgress(os), at |-> StateAtCall])

\* Error codes a failing file-system call may carry.
ErrorCodes == {"EACCES", "EIO"}

ShouldBailAnyStep(step, code) == code = "EACCES"

\* OpenFailError sets shouldBail = false; open() sets it to true only for
\* openErr.code === 'EACCES' of fs.open.
ShouldBail(step, code) == step = "open" /\ code = "EACCES"

\* open() returns: res is "ok" or the step that failed with code.  The round
\* that awaited it, if any, is settled.
OpenReturn(p, res, code) ==
    LET o == opens[p] IN
    /\ opens' = [opens EXCEPT ![p].pc = "done", ![p].res = res,
                              ![p].code = code,
                              ![p].bail = ShouldBail(res, code)]
    /\ IF o.owner = 0
       THEN UNCHANGED <<rounds, mq>>
       ELSE /\ rounds' = Settle(rounds, o.owner,
                                IF res = "ok" THEN "ok" ELSE "err",
                                res # "ok")
            /\ mq' = mq \o Reactions(rounds, o.owner)

UserOpens == Cardinality({p \in 1..Len(opens) : opens[p].owner = 0})

Open ==
    /\ mq = <<>> \/ inUserTick
    /\ UserOpens < budget.opens
    /\ opens' = OpenStart(opens, 0)
    /\ inUserTick' = (mq # <<>>)
    /\ EndRun
    /\ UNCHANGED <<loggerVars, fsVars, rounds, destroys, mq, calls, onErrors,
                   events, budget, args>>

MkdirDone ==
    /\ mq = <<>>
    /\ \E p \in 1..Len(opens), ok \in Outcomes, code \in ErrorCodes :
        /\ opens[p].pc = "mkdir"
        /\ events' = IF ok THEN events ELSE events - 1
        /\ IF ok
           THEN /\ opens' = [opens EXCEPT ![p].pc = "read"]
                /\ UNCHANGED <<rounds, mq>>
           ELSE OpenReturn(p, "mkdir", code)
    /\ inUserTick' = FALSE
    /\ EndRun
    /\ UNCHANGED <<loggerVars, fsVars, destroys, calls, onErrors, budget, args>>

RecoveredOrReset(f, cur) ==
    IF f = NoFile THEN [lines |-> 0, size |-> 0, offs |-> <<>>]
    ELSE [lines |-> Len(ScanNewLines(f, Len(f), 0)), size |-> Len(f),
          offs |-> ScanNewLines(f, Len(f), 0)]

\* size, lines and newLineOffsets after readFile returned f, from their
\* values cur: assigned inside "if (Buffer.isBuffer(buf))" only.
Recovered(f, cur) ==
    IF f = NoFile THEN cur
    ELSE [lines |-> Len(ScanNewLines(f, Len(f), 0)), size |-> Len(f),
          offs |-> ScanNewLines(f, Len(f), 0)]

ReadFileDone ==
    /\ mq = <<>>
    /\ \E p \in 1..Len(opens), ok \in Outcomes, code \in ErrorCodes :
        /\ opens[p].pc = "read"
        /\ events' = IF ok THEN events ELSE events - 1
        /\ IF ok
           THEN /\ opens' = [opens EXCEPT ![p].pc = "open"]
                /\ UNCHANGED <<rounds, mq>>
                /\ LET now == Recovered(file, [lines |-> lines, size |-> size,
                                                offs |-> newLineOffsets])
                   IN /\ size' = now.size
                      /\ newLineOffsets' = now.offs
                      /\ lines' = now.lines
           ELSE /\ OpenReturn(p, "read", code)
                /\ UNCHANGED <<size, newLineOffsets, lines>>
    /\ inUserTick' = FALSE
    /\ EndRun
    /\ UNCHANGED <<fd, bytesWritten, writeCalled, pendingFlush, pendingWrites,
                   hasOpened, fsVars, destroys, calls, onErrors, budget, args>>

OpenedByLastOpen(ok, h) == ok

\* this.hasOpened after fs.open of open() completed: set on success
\* (line 177), not assigned on the error return.
OpenedAfter(ok, h) == IF ok THEN TRUE ELSE h

OpenDone ==
    /\ mq = <<>>
    /\ \E p \in 1..Len(opens), ok \in Outcomes, code \in ErrorCodes :
        /\ opens[p].pc = "open"
        /\ events' = IF ok THEN events ELSE events - 1
        /\ IF ok /\ HasFreeFd(fdTable)
           THEN /\ fd' = FreeFd(fdTable)
                /\ fdTable' = [fdTable EXCEPT ![FreeFd(fdTable)] = "cur"]
                /\ file' = IF file = NoFile THEN <<>> ELSE file
                /\ hasOpened' = OpenedAfter(TRUE, hasOpened)
                /\ OpenReturn(p, "ok", "none")
           ELSE /\ OpenReturn(p, "open", IF ok THEN "EMFILE" ELSE code)
                /\ hasOpened' = OpenedAfter(FALSE, hasOpened)
                /\ UNCHANGED <<fd, fdTable, file>>
    /\ inUserTick' = FALSE
    /\ EndRun
    /\ UNCHANGED <<lines, size, bytesWritten, writeCalled, newLineOffsets,
                   pendingFlush, pendingWrites, tmp, destroys, calls,
                   onErrors, budget, args>>

\* ---- writeLog() and flush() ----------------------------------------------

SnapshotSkipsFirst(pw) == IF Len(pw) > 1 THEN Tail(pw) ELSE pw

\* const pendingWrites = this.pendingWrites.slice()
Snapshot(pw) == pw

QueueKept(pw) == pw
QueueKeepsLast(pw) == <<pw[Len(pw)]>>

\* this.pendingWrites.length = 0
QueueAfterSnapshot(pw) == <<>>

AwaitsNothing(pf) == FALSE

\* if (this.pendingFlush) await this.pendingFlush
AwaitsPending(pf) == pf # NULL

\* The counters as a record; rounds[n].before keeps the ones _truncate() was
\* called with, NoCounters when the round called no _truncate().
Counters(ls, sz, offs) == [lines |-> ls, size |-> sz, offs |-> offs]
NoCounters == Counters(-1, -1, <<>>)

NewRoundAlwaysWrites(c, pw) ==
    [pc |-> "write",
     fd |-> fd,
     snapshot |-> Snapshot(pw),
     buf |-> JoinLines(Snapshot(pw)),
     position |-> 0,
     lineIndex |-> 0,
     oldFd |-> NULL,
     reactions |-> <<[t |-> "starter", c |-> c]>>,
     starter |-> c,
     partial |-> FALSE,
     failed |-> FALSE,
     before |-> NoCounters]

\* The synchronous prefix of _flush(): the queue is captured and emptied and,
\* unless fd is null, one write of the joined buffer is issued.
NewRound(c, pw) ==
    [pc |-> IF fd = NULL THEN "err" ELSE "write",
     fd |-> fd,
     snapshot |-> Snapshot(pw),
     buf |-> JoinLines(Snapshot(pw)),
     position |-> 0,
     lineIndex |-> 0,
     oldFd |-> NULL,
     reactions |-> IF fd = NULL THEN <<>> ELSE <<[t |-> "starter", c |-> c]>>,
     starter |-> c,
     partial |-> FALSE,
     failed |-> FALSE,
     before |-> NoCounters]

ReturnsNothing(pf) == NULL

\* return this.pendingFlush
ReturnedPromise(pf) == pf

RejectsOnError(pc) == IF pc = "ok" THEN "resolved" ELSE "rejected"

\* What the promise of flush() does when the round it awaited has settled
\* with pc: _flush() returns {err} or {} (resolve) or has thrown (reject).
CallOutcome(pc) == IF pc = "rejected" THEN "rejected" ELSE "resolved"

NothingQueuedNever(pw) == FALSE

\* this.pendingWrites.length === 0
NothingQueued(pw) == pw = <<>>

\* flush() from its second statement on, run for call c with the queue pw,
\* the microtask queue mq0 and the call table cs.
FlushBody(c, pw, mq0, cs) ==
    IF NothingQueued(pw)
    THEN \* return this.pendingFlush
         /\ pendingWrites' = pw
         /\ pendingFlush' = pendingFlush
         /\ IF ReturnedPromise(pendingFlush) = NULL
            THEN /\ calls' = SetCall(cs, c, "resolved")
                 /\ rounds' = rounds
                 /\ mq' = mq0
            ELSE IF InFlight(rounds[ReturnedPromise(pendingFlush)])
            THEN /\ calls' = cs
                 /\ rounds' = [rounds EXCEPT
                                  ![ReturnedPromise(pendingFlush)].reactions =
                                      Append(@, [t |-> "adopt", c |-> c])]
                 /\ mq' = mq0
            ELSE /\ calls' = cs
                 /\ rounds' = rounds
                 /\ mq' = Append(mq0, [t |-> "adopt", c |-> c,
                                       n |-> ReturnedPromise(pendingFlush)])
    ELSE \* this.pendingFlush = this._flush(); await this.pendingFlush
         /\ pendingWrites' = QueueAfterSnapshot(pw)
         /\ pendingFlush' = Len(rounds) + 1
         /\ rounds' = Append(rounds, NewRound(c, pw))
         /\ calls' = cs
         /\ mq' = IF fd = NULL
                  THEN Append(mq0, [t |-> "starter", c |-> c,
                                    n |-> Len(rounds) + 1])
                  ELSE mq0

\* flush() called for call c.
FlushCall(c, pw, mq0, cs) ==
    IF AwaitsPending(pendingFlush)
    THEN /\ pendingWrites' = pw
         /\ pendingFlush' = pendingFlush
         /\ calls' = cs
         /\ IF InFlight(rounds[pendingFlush])
            THEN /\ rounds' = [rounds EXCEPT ![pendingFlush].reactions =
                                  Append(@, [t |-> "waiter", c |-> c])]
                 /\ mq' = mq0
            ELSE /\ rounds' = rounds
                 /\ mq' = Append(mq0, [t |-> "waiter", c |-> c,
                                       n |-> pendingFlush])
    ELSE FlushBody(c, pw, mq0, cs)

\* A level method of the logger: the serialised line is queued and flush()
\* is called.  The call is refused before open() has succeeded.
WriteCalls == Cardinality({c \in DOMAIN calls : IsWrite(c)})
FlushCalls == Cardinality({c \in DOMAIN calls : ~IsWrite(c)})

WriteLog ==
    /\ mq = <<>> \/ inUserTick
    /\ hasOpened
    /\ events > 0
    /\ events' = events - 1
    /\ \E len \in LineLens :
        LET c == WriteCalls + 1 IN
        /\ FlushCall(c, Append(pendingWrites, LineString(c, len)), mq,
                     NewCall(calls, c))
        /\ bursts' = [run |-> RunOf(c), of |-> bursts.of @@ (c :> RunOf(c))]
    /\ inUserTick' = (mq' # <<>>)
    /\ UNCHANGED <<fd, lines, size, bytesWritten, writeCalled, newLineOffsets,
                   hasOpened, fsVars, opens, destroys, onErrors, budget, args>>

OnErrorSkipped(n) == n

\* this.onError(err) in the catch block of _write()
OnErrorCalled(n) == n + 1

\* A level method called with fields JSON.stringify throws on (a circular
\* reference): _write() catches the exception before anything is queued,
\* calls onError and returns null.
WriteLogThrows ==
    /\ mq = <<>> \/ inUserTick
    /\ hasOpened
    /\ events > 0
    /\ events' = events - 1
    /\ calls' = calls @@ ((WriteCalls + 1) :> "null")
    /\ onErrors' = OnErrorCalled(onErrors)
    /\ inUserTick' = (mq # <<>>)
    /\ UNCHANGED <<loggerVars, fsVars, rounds, opens, destroys, mq, bursts,
                   budget, args>>

\* A serialised line is a sequence of characters; the characters of an
\* original serialisation are numbered, those of '...' are Dot.
Dot == -1
Levels == {"info", "warn", "error"}
FieldValues == {"{}", "{a: 1}"}
MaxLineLen == MAX_LOG_LINE_SIZE + 2
Serialised(n) == [i \in 1..n |-> i]
NoTruncated == <<>>

EllipsizeWhole(str) == SubSeq(str, 1, MAX_LOG_LINE_SIZE) \o <<Dot, Dot, Dot>>

\* str.slice(0, MAX_LOG_LINE_SIZE - 3) + '...'
Ellipsize(str) == SubSeq(str, 1, MAX_LOG_LINE_SIZE - 3) \o <<Dot, Dot, Dot>>

\* level === 'info' ? 'warn' : level
TruncLevel(level) == IF level = "info" THEN "warn" ELSE level

\* The LogLine _write() serialises and queues, given the first
\* serialisation str of the line with level and fields.
StoredLine(level, fields, str) ==
    IF Len(str) > MAX_LOG_LINE_SIZE
    THEN [level |-> TruncLevel(level), fields |-> "{isTruncated: true}",
          truncated |-> Ellipsize(str)]
    ELSE [level |-> level, fields |-> fields, truncated |-> NoTruncated]

\* _write() serialises a line of level and fields whose first serialisation
\* has n characters; args records the line and what is stored for it.
EncodeLine ==
    /\ Len(args) < budget.logs
    /\ \E level \in Levels, fields \in FieldValues, n \in 1..MaxLineLen :
           args' = Append(args, [level |-> level, fields |-> fields,
                                 str |-> Serialised(n),
                                 stored |-> StoredLine(level, fields,
                                                       Serialised(n))])
    /\ UNCHANGED <<loggerVars, fsVars, rounds, opens, destroys, mq,
                   inUserTick, calls, bursts, onErrors, events, budget>>

\* JavaScript values a caller may pass as msg and as info, by name.
MsgValues == {"undefined", "'foo'", "7"}
InfoValues == {"undefined", "{}", "'bar'", "0"}
Truthy(v) == v \in {"'foo'", "'bar'", "7", "{}"}
TypeOf(v) ==
    IF v \in {"'foo'", "'bar'"} THEN "string"
    ELSE IF v \in {"7", "0"} THEN "number"
    ELSE IF v = "{}" THEN "object"
    ELSE "undefined"

LogCheckInfoAnyTruthy(opened, msg, info) ==
    IF ~opened THEN "Must call open() first."
    ELSE IF ~Truthy(msg) \/ TypeOf(msg) # "string" THEN "msg is mandatory"
    ELSE "ok"

\* The checks at the head of MainLogger._log: the exception thrown, or "ok".
LogCheck(opened, msg, info) ==
    IF ~opened THEN "Must call open() first."
    ELSE IF ~Truthy(msg) \/ TypeOf(msg) # "string" THEN "msg is mandatory"
    ELSE IF Truthy(info) /\ TypeOf(info) # "object"
    THEN "info must be object"
    ELSE "ok"

\* A level method (info, warn, error) called with any msg and info, at any
\* time: MainLogger._log throws, or hands the line to the file logger.
\* args records what each such call was given and whether open() had
\* succeeded.
Log ==
    /\ mq = <<>> \/ inUserTick
    /\ events > 0
    /\ Cardinality(DOMAIN args) < budget.logs
    /\ events' = events - 1
    /\ \E msg \in MsgValues, info \in InfoValues, len \in LineLens :
        LET c == WriteCalls + 1 IN
        /\ args' = args @@ (c :> [msg |-> msg, info |-> info,
                                  opened |-> hasOpened])
        /\ IF LogCheck(hasOpened, msg, info) # "ok"
           THEN /\ calls' = calls @@ (c :> LogCheck(hasOpened, msg, info))
                /\ UNCHANGED <<pendingFlush, pendingWrites, rounds, mq,
                               bursts>>
           ELSE /\ FlushCall(c, Append(pendingWrites, LineString(c, len)),
                             mq, NewCall(calls, c))
                /\ bursts' = [run |-> RunOf(c),
                              of |-> bursts.of @@ (c :> RunOf(c))]
    /\ inUserTick' = (mq' # <<>>)
    /\ UNCHANGED <<fd, lines, size, bytesWritten, writeCalled, newLineOffsets,
                   hasOpened, fsVars, opens, destroys, onErrors, budget>>

Flush ==
    /\ mq = <<>> \/ inUserTick
    /\ events > 0
    /\ events' = events - 1
    /\ LET c == -(FlushCalls + 1) IN
       FlushCall(c, pendingWrites, mq, NewCall(calls, c))
    /\ inUserTick' = (mq' # <<>>)
    /\ EndRun
    /\ UNCHANGED <<fd, lines, size, bytesWritten, writeCalled, newLineOffsets,
                   hasOpened, fsVars, opens, destroys, onErrors, budget, args>>

\* flush() resumes after "const r = await this.pendingFlush".
StarterCont ==
    /\ mq # <<>>
    /\ Head(mq).t = "starter"
    /\ LET m == Head(mq) IN
       /\ calls' = SetCall(calls, m.c, CallOutcome(rounds[m.n].pc))
       /\ IF CallOutcome(rounds[m.n].pc) = "rejected"
          THEN UNCHANGED <<pendingFlush, onErrors>>
          ELSE /\ pendingFlush' = NULL
               /\ onErrors' = IF rounds[m.n].pc = "err"
                              THEN onErrors + 1 ELSE onErrors
    /\ mq' = Tail(mq)
    /\ inUserTick' = FALSE
    /\ EndRun
    /\ UNCHANGED <<fd, lines, size, bytesWritten, writeCalled, newLineOffsets,
                   pendingWrites, hasOpened, fsVars, rounds, opens, destroys,
                   events, budget, args>>

\* flush() resumes after "if (this.pendingFlush) await this.pendingFlush".
WaiterCont ==
    /\ mq # <<>>
    /\ Head(mq).t = "waiter"
    /\ LET m == Head(mq) IN
       IF CallOutcome(rounds[m.n].pc) = "rejected"
       THEN /\ calls' = SetCall(calls, m.c, "rejected")
            /\ mq' = Tail(mq)
            /\ UNCHANGED <<pendingFlush, pendingWrites, rounds>>
       ELSE FlushBody(m.c, pendingWrites, Tail(mq), calls)
    /\ inUserTick' = FALSE
    /\ EndRun
    /\ UNCHANGED <<fd, lines, size, bytesWritten, writeCalled, newLineOffsets,
                   hasOpened, fsVars, opens, destroys, onErrors, events,
                   budget, args>>

\* The promise of a flush() that returned this.pendingFlush follows it.
AdoptCont ==
    /\ mq # <<>>
    /\ Head(mq).t = "adopt"
    /\ LET m == Head(mq) IN
       calls' = SetCall(calls, m.c, CallOutcome(rounds[m.n].pc))
    /\ mq' = Tail(mq)
    /\ inUserTick' = FALSE
    /\ EndRun
    /\ UNCHANGED <<loggerVars, fsVars, rounds, opens, destroys, onErrors,
                   events, budget, args>>

\* ---- _flush(): the write and the truncation triggers ---------------------

\* Byte counts fs.write may report for a buffer: all of it, or fewer while
\* events remain.
TransferCounts(buf) ==
    IF events > 0 THEN 0..Len(buf) ELSE {Len(buf)}

\* Math.floor(MAX_LOG_LINES / 4)
LineCutIndex == MAX_LOG_LINES \div 4

\* Math.floor(MAX_LOG_FILE_SIZE / 4)
MinimumOffset == MAX_LOG_FILE_SIZE \div 4

SizeCutIndexAtOrAfter(offs) ==
    IF \E i \in 1..Len(offs) : offs[i] >= MinimumOffset
    THEN (CHOOSE i \in 1..Len(offs) :
             /\ offs[i] >= MinimumOffset
             /\ \A j \in 1..(i - 1) : offs[j] < MinimumOffset) - 1
    ELSE -1

\* The loop of the size trigger: the index (from 0) of the first recorded
\* offset greater than minimumOffset, or -1.
SizeCutIndex(offs) ==
    IF \E i \in 1..Len(offs) : offs[i] > MinimumOffset
    THEN (CHOOSE i \in 1..Len(offs) :
             /\ offs[i] > MinimumOffset
             /\ \A j \in 1..(i - 1) : offs[j] <= MinimumOffset) - 1
    ELSE -1

TriggerSizeFirst(ls, sz, offs) ==
    IF sz >= MAX_LOG_FILE_SIZE
    THEN IF SizeCutIndex(offs) = -1
         THEN [kind |-> "cut", position |-> MinimumOffset + 1,
               lineIndex |-> -1]
         ELSE [kind |-> "cut",
               position |-> offs[SizeCutIndex(offs) + 1] + 1,
               lineIndex |-> SizeCutIndex(offs)]
    ELSE IF ls >= MAX_LOG_LINES
    THEN IF LineCutIndex + 1 > Len(offs)
         THEN [kind |-> "nan", position |-> 0, lineIndex |-> LineCutIndex]
         ELSE [kind |-> "cut", position |-> offs[LineCutIndex + 1] + 1,
               lineIndex |-> LineCutIndex]
    ELSE [kind |-> "none", position |-> 0, lineIndex |-> 0]

\* The truncation _flush asks for once the counters are ls, sz and offs:
\* "none", a "cut" at position with lineIndex, or "nan" when the line
\* trigger reads an entry newLineOffsets does not have (undefined + 1).
Trigger(ls, sz, offs) ==
    IF ls >= MAX_LOG_LINES
    THEN IF LineCutIndex + 1 > Len(offs)
         THEN [kind |-> "nan", position |-> 0, lineIndex |-> LineCutIndex]
         ELSE [kind |-> "cut", position |-> offs[LineCutIndex + 1] + 1,
               lineIndex |-> LineCutIndex]
    ELSE IF sz >= MAX_LOG_FILE_SIZE
    THEN IF SizeCutIndex(offs) = -1
         THEN [kind |-> "cut", position |-> MinimumOffset + 1,
               lineIndex |-> -1]
         ELSE [kind |-> "cut",
               position |-> offs[SizeCutIndex(offs) + 1] + 1,
               lineIndex |-> SizeCutIndex(offs)]
    ELSE [kind |-> "none", position |-> 0, lineIndex |-> 0]

LinesAfterWriteOne(ls, k) == ls + 1

\* lines after a write of a snapshot of k entries
LinesAfterWrite(ls, k) == ls + k

\* fs.write on descriptor r.fd completes.
WriteDone ==
    /\ mq = <<>>
    /\ \E n \in 1..Len(rounds), ok \in Outcomes :
       \E b \in TransferCounts(rounds[n].buf) :
        LET r == rounds[n]
            good == ok /\ fdTable[r.fd] # "closed"
            offs == newLineOffsets \o ScanNewLines(r.buf, b, size)
            ls == LinesAfterWrite(lines, Len(r.snapshot))
            tr == Trigger(ls, size + b, offs)
        IN
        /\ r.pc = "write"
        /\ writeCalled' = writeCalled + 1
        /\ events' = IF ok /\ (~good \/ b = Len(r.buf)) THEN events
                     ELSE events - 1
        /\ IF ~good
           THEN /\ rounds' = Settle(rounds, n, "err", TRUE)
                /\ mq' = Reactions(rounds, n)
                /\ UNCHANGED <<lines, size, bytesWritten, newLineOffsets,
                               pendingWrites, file, tmp>>
           ELSE /\ pendingWrites' = IF b # Len(r.buf)
                                    THEN Append(pendingWrites, <<newLineByte>>)
                                    ELSE pendingWrites
                /\ file' = IF fdTable[r.fd] = "cur"
                           THEN file \o SubSeq(r.buf, 1, b) ELSE file
                /\ newLineOffsets' = offs
                /\ bytesWritten' = bytesWritten + b
                /\ size' = size + b
                /\ lines' = ls
                /\ IF tr.kind = "none"
                   THEN /\ rounds' = [Settle(rounds, n, "ok", FALSE) EXCEPT
                                         ![n].partial = b # Len(r.buf)]
                        /\ mq' = Reactions(rounds, n)
                        /\ tmp' = tmp
                   ELSE IF tr.kind = "nan"
                   THEN \* createWriteStream() has run, createReadStream()
                        \* throws on start: NaN
                        /\ rounds' = [Settle(rounds, n, "rejected", FALSE)
                                         EXCEPT ![n].partial = b # Len(r.buf)]
                        /\ mq' = Reactions(rounds, n)
                        /\ tmp' = <<>>
                   ELSE /\ rounds' = [rounds EXCEPT
                                         ![n].pc = "pipeline",
                                         ![n].before =
                                             Counters(ls, size + b, offs),
                                         ![n].partial = b # Len(r.buf),
                                         ![n].position = tr.position,
                                         ![n].lineIndex = tr.lineIndex]
                        /\ mq' = mq
                        /\ tmp' = tmp
    /\ inUserTick' = FALSE
    /\ EndRun
    /\ UNCHANGED <<fd, pendingFlush, hasOpened, fdTable, opens, destroys,
                   calls, onErrors, budget, args>>

\* ---- _truncate() ---------------------------------------------------------

TailFromOneEarlier(f, position) == SubSeq(f, position, Len(f))

\* The bytes of f from byte offset position to the end.
TailFrom(f, position) == SubSeq(f, position + 1, Len(f))

PathAfterCopyInPlace(f, copy) == copy

\* The file at the log path after the copy, which writes to
\* logFileLocation + '.tmp'.
PathAfterCopy(f, copy) == f

\* stream.pipeline(readStream, writeStream) completes.
PipelineDone ==
    /\ mq = <<>>
    /\ \E n \in 1..Len(rounds), ok \in Outcomes :
        LET r == rounds[n] IN
        /\ r.pc = "pipeline"
        /\ events' = IF ok THEN events ELSE events - 1
        /\ IF ok /\ file # NoFile
           THEN /\ tmp' = TailFrom(file, r.position)
                /\ file' = PathAfterCopy(file, TailFrom(file, r.position))
                /\ rounds' = [rounds EXCEPT ![n].pc = "rename"]
                /\ mq' = mq
           ELSE /\ tmp' = tmp
                /\ file' = file
                /\ rounds' = Settle(rounds, n, "err", TRUE)
                /\ mq' = Reactions(rounds, n)
    /\ inUserTick' = FALSE
    /\ EndRun
    /\ UNCHANGED <<loggerVars, fdTable, opens, destroys, calls,
                   onErrors, budget, args>>

\* A rename over the log path: descriptors of the old file keep it open.
Orphaned(tbl) == [d \in 1..MaxFd |-> IF tbl[d] = "cur" THEN "orphan"
                                     ELSE tbl[d]]

LinesAfterCutOffByOne(ls, lineIndex) == ls - lineIndex
SizeAfterCutKept(sz, position) == sz
OffsetsAfterCutNotRebased(offs, position, lineIndex) ==
    SubSeq(offs, lineIndex + 2, Len(offs))

\* The counters after a cut at position with lineIndex >= 0.
LinesAfterCut(ls, lineIndex) == ls - lineIndex - 1
SizeAfterCut(sz, position) == sz - position
OffsetsAfterCut(offs, position, lineIndex) ==
    LET kept == SubSeq(offs, lineIndex + 2, Len(offs)) IN
    [i \in 1..Len(kept) |-> kept[i] - position]

\* fs.rename(tmp, logFileLocation) completes; on success the counters are
\* updated and the close (lineIndex = -1) or the re-open is issued.
RenameDone ==
    /\ mq = <<>>
    /\ \E n \in 1..Len(rounds), ok \in Outcomes :
        LET r == rounds[n] IN
        /\ r.pc = "rename"
        /\ events' = IF ok THEN events ELSE events - 1
        /\ IF ~(ok /\ tmp # NoFile)
           THEN /\ rounds' = Settle(rounds, n, "err", TRUE)
                /\ mq' = Reactions(rounds, n)
                /\ UNCHANGED <<lines, size, newLineOffsets, file, tmp,
                               fdTable>>
           ELSE /\ file' = tmp
                /\ tmp' = NoFile
                /\ fdTable' = Orphaned(fdTable)
                /\ mq' = mq
                /\ IF r.lineIndex = -1
                   THEN /\ lines' = 0
                        /\ size' = 0
                        /\ newLineOffsets' = <<>>
                        /\ rounds' = [rounds EXCEPT ![n].pc = "close",
                                                    ![n].oldFd = fd]
                   ELSE /\ lines' = LinesAfterCut(lines, r.lineIndex)
                        /\ size' = SizeAfterCut(size, r.position)
                        /\ newLineOffsets' =
                               OffsetsAfterCut(newLineOffsets, r.position,
                                               r.lineIndex)
                        /\ rounds' = [rounds EXCEPT ![n].pc = "reopen",
                                                    ![n].oldFd = fd]
    /\ inUserTick' = FALSE
    /\ EndRun
    /\ UNCHANGED <<fd, bytesWritten, writeCalled, pendingFlush, pendingWrites,
                   hasOpened, opens, destroys, calls, onErrors, budget, args>>

\* fs.close(d) succeeds on an open descriptor only.
CanClose(d) == d # NULL /\ fdTable[d] # "closed"

\* lineIndex = -1: fs.close(this.fd) completes, then "return this.open()".
TruncateCloseDone ==
    /\ mq = <<>>
    /\ \E n \in 1..Len(rounds), ok \in Outcomes :
        LET r == rounds[n] IN
        /\ r.pc = "close"
        /\ events' = IF ok THEN events ELSE events - 1
        /\ IF ~(ok /\ CanClose(r.oldFd))
           THEN /\ fd' = NULL
                /\ rounds' = Settle(rounds, n, "err", TRUE)
                /\ mq' = Reactions(rounds, n)
                /\ UNCHANGED <<fdTable, opens>>
           ELSE /\ fdTable' = [fdTable EXCEPT ![r.oldFd] = "closed"]
                /\ fd' = fd
                /\ opens' = OpenStart(opens, n)
                /\ IF fd # NULL
                   THEN \* open() returns 'Cannot open twice()' at once
                        /\ rounds' = Settle(rounds, n, "err", FALSE)
                        /\ mq' = Reactions(rounds, n)
                   ELSE /\ rounds' = [rounds EXCEPT ![n].pc = "open"]
                        /\ mq' = mq
    /\ inUserTick' = FALSE
    /\ EndRun
    /\ UNCHANGED <<lines, size, bytesWritten, writeCalled, newLineOffsets,
                   pendingFlush, pendingWrites, hasOpened, file, tmp,
                   destroys, calls, onErrors, budget, args>>

\* lineIndex >= 0: fs.open(logFileLocation, 'a+') completes; on success the
\* descriptor is swapped and the close of the old one is issued.
ReopenDone ==
    /\ mq = <<>>
    /\ \E n \in 1..Len(rounds), ok \in Outcomes :
        LET r == rounds[n] IN
        /\ r.pc = "reopen"
        /\ events' = IF ok THEN events ELSE events - 1
        /\ IF ~(ok /\ HasFreeFd(fdTable))
           THEN /\ rounds' = Settle(rounds, n, "err", TRUE)
                /\ mq' = Reactions(rounds, n)
                /\ UNCHANGED <<fd, fdTable, file>>
           ELSE /\ fd' = FreeFd(fdTable)
                /\ fdTable' = [fdTable EXCEPT ![FreeFd(fdTable)] = "cur"]
                /\ file' = IF file = NoFile THEN <<>> ELSE file
                /\ rounds' = [rounds EXCEPT ![n].pc = "closeOld"]
                /\ mq' = mq
    /\ inUserTick' = FALSE
    /\ EndRun
    /\ UNCHANGED <<lines, size, bytesWritten, writeCalled, newLineOffsets,
                   pendingFlush, pendingWrites, hasOpened, tmp, opens,
                   destroys, calls, onErrors, budget, args>>

\* fs.close(oldFd) completes.
CloseOldDone ==
    /\ mq = <<>>
    /\ \E n \in 1..Len(rounds), ok \in Outcomes :
        LET r == rounds[n] IN
        /\ r.pc = "closeOld"
        /\ events' = IF ok THEN events ELSE events - 1
        /\ IF ~(ok /\ CanClose(r.oldFd))
           THEN /\ rounds' = Settle(rounds, n, "err", TRUE)
                /\ fdTable' = fdTable
           ELSE /\ rounds' = Settle(rounds, n, "ok", FALSE)
                /\ fdTable' = [fdTable EXCEPT ![r.oldFd] = "closed"]
        /\ mq' = Reactions(rounds, n)
    /\ inUserTick' = FALSE
    /\ EndRun
    /\ UNCHANGED <<loggerVars, file, tmp, opens, destroys, calls, onErrors,
                   budget, args>>

\* ---- destroy() -----------------------------------------------------------

Destroy ==
    /\ mq = <<>> \/ inUserTick
    /\ Len(destroys) < budget.destroys
    /\ destroys' = Append(destroys, [pc |-> "close", fd |-> fd,
                                     res |-> "none"])
    /\ inUserTick' = (mq # <<>>)
    /\ EndRun
    /\ UNCHANGED <<loggerVars, fsVars, rounds, opens, mq, calls, onErrors,
                   events, budget, args>>

FdClearedAlways(closed, cur) == NULL

\* this.fd after the close of destroy(): "this.fd = null" follows the
\* early return on closeErr.
FdAfterClose(closed, cur) == IF closed THEN NULL ELSE cur

\* fs.close(this.fd) of destroy() completes; on success fd is cleared and
\* the unlink is issued.
DestroyCloseDone ==
    /\ mq = <<>>
    /\ \E k \in 1..Len(destroys), ok \in Outcomes :
        LET d == destroys[k] IN
        /\ d.pc = "close"
        /\ events' = IF ok THEN events ELSE events - 1
        /\ IF ~(ok /\ CanClose(d.fd))
           THEN /\ destroys' = [destroys EXCEPT ![k].pc = "done",
                                                ![k].res = "close"]
                /\ fd' = FdAfterClose(FALSE, fd)
                /\ fdTable' = fdTable
           ELSE /\ fdTable' = [fdTable EXCEPT ![d.fd] = "closed"]
                /\ fd' = FdAfterClose(TRUE, fd)
                /\ destroys' = [destroys EXCEPT ![k].pc = "unlink"]
    /\ inUserTick' = FALSE
    /\ EndRun
    /\ UNCHANGED <<lines, size, bytesWritten, writeCalled, newLineOffsets,
                   pendingFlush, pendingWrites, hasOpened, file, tmp, rounds,
                   opens, mq, calls, onErrors, budget, args>>

\* fs.unlink(logFileLocation) completes.
UnlinkDone ==
    /\ mq = <<>>
    /\ \E k \in 1..Len(destroys), ok \in Outcomes :
        LET d == destroys[k] IN
        /\ d.pc = "unlink"
        /\ events' = IF ok THEN events ELSE events - 1
        /\ IF ~(ok /\ file # NoFile)
           THEN /\ destroys' = [destroys EXCEPT ![k].pc = "done",
                                                ![k].res = "unlink"]
                /\ UNCHANGED <<file, fdTable>>
           ELSE /\ file' = NoFile
                /\ fdTable' = Orphaned(fdTable)
                /\ destroys' = [destroys EXCEPT ![k].pc = "done",
                                                ![k].res = "ok"]
    /\ inUserTick' = FALSE
    /\ EndRun
    /\ UNCHANGED <<loggerVars, tmp, rounds, opens, mq, calls, onErrors,
                   budget, args>>

\* ---- specification -------------------------------------------------------

\* The logger is opened once and then written to and flushed.
Next ==
    \/ Open \/ MkdirDone \/ ReadFileDone \/ OpenDone
    \/ WriteLog \/ Flush \/ StarterCont \/ WaiterCont \/ AdoptCont
    \/ WriteDone \/ PipelineDone \/ RenameDone \/ TruncateCloseDone
    \/ ReopenDone \/ CloseOldDone

Spec == Init /\ [][Next]_vars

\* Every I/O operation that was issued completes and every queued promise
\* reaction runs; the caller is free to stop calling.
Progress ==
    /\ WF_vars(MkdirDone) /\ WF_vars(ReadFileDone) /\ WF_vars(OpenDone)
    /\ WF_vars(StarterCont) /\ WF_vars(WaiterCont) /\ WF_vars(AdoptCont)
    /\ WF_vars(WriteDone) /\ WF_vars(PipelineDone) /\ WF_vars(RenameDone)
    /\ WF_vars(TruncateCloseDone) /\ WF_vars(ReopenDone)
    /\ WF_vars(CloseOldDone)

SpecLive == Init /\ [][Next]_vars /\ Progress

\* The logger with callers that may also pass fields that cannot be
\* serialised.
NextThrows == Next \/ WriteLogThrows

SpecThrows == Init /\ [][NextThrows]_vars

\* The logger with callers that may call the level methods at any time and
\* with any arguments.
NextUsage == Next \/ Log

\* The serialisation of lines alone, for two lines.
SpecEncode == InitWith([opens |-> 0, destroys |-> 0, logs |-> 2], 0)
              /\ [][EncodeLine]_vars

\* The logger with a caller that also calls destroy(), once.
NextDestroy == Next \/ Destroy \/ DestroyCloseDone \/ UnlinkDone

SpecDestroy == InitWith([opens |-> 1, destroys |-> 1], MaxEvents - 2)
               /\ [][NextDestroy]_vars

\* open() and destroy() called by a caller that awaits all its calls first.
AwaitedOpen ==
    /\ \A n \in 1..Len(rounds) : ~InFlight(rounds[n])
    /\ \A p \in 1..Len(opens) : opens[p].pc = "done"
    /\ \A k \in 1..Len(destroys) : destroys[k].pc = "done"
    /\ mq = <<>>
    /\ Open

AwaitedDestroy ==
    /\ \A n \in 1..Len(rounds) : ~InFlight(rounds[n])
    /\ \A p \in 1..Len(opens) : opens[p].pc = "done"
    /\ \A k \in 1..Len(destroys) : destroys[k].pc = "done"
    /\ mq = <<>>
    /\ Destroy

\* The logger with a caller that calls open() twice and destroy() once,
\* each time after everything it called before has completed, and writes
\* and flushes at any time.
NextAwaited ==
    \/ AwaitedOpen \/ MkdirDone \/ ReadFileDone \/ OpenDone
    \/ AwaitedDestroy \/ DestroyCloseDone \/ UnlinkDone
    \/ WriteLog \/ Flush \/ StarterCont \/ WaiterCont \/ AdoptCont
    \/ WriteDone \/ PipelineDone \/ RenameDone \/ TruncateCloseDone
    \/ ReopenDone \/ CloseOldDone

SpecAwaited == InitWith([opens |-> 2, destroys |-> 1], MaxEvents - 2)
               /\ [][NextAwaited]_vars

\* The logger with a caller that calls open() twice.
SpecReopen == InitWith([opens |-> 2, destroys |-> 0], MaxEvents - 2)
              /\ [][Next]_vars

SpecUsage == InitWith([opens |-> 1, destroys |-> 0, logs |-> 2],
                      MaxEvents - 2)
             /\ [][NextUsage]_vars

\* ---- vocabulary of the properties ------------------------------------------

FileSize == IF file = NoFile THEN 0 ELSE Len(file)

\* Every flush round started so far has completed.
RoundsCompleted ==
    /\ rounds # <<>>
    /\ \A n \in 1..Len(rounds) : ~InFlight(rounds[n])

\* I/O operations so far that failed or transferred fewer bytes than asked.
Anomalies == MaxEvents - events - Cardinality(DOMAIN calls)

\* The round whose snapshot holds the line of level-method call c, or 0.
HoldsLine(r, c) ==
    \E i \in 1..Len(r.snapshot) : r.snapshot[i][1] = DataByte(c)
RoundsOf(c) == {n \in 1..Len(rounds) : HoldsLine(rounds[n], c)}
RoundOf(c) == IF RoundsOf(c) = {} THEN 0 ELSE CHOOSE n \in RoundsOf(c) : TRUE

\* The synchronous runs of level-method calls that began on an open, idle
\* logger, named by their first call, and the calls of such a run.
BurstHeads == {f \in DOMAIN bursts.of : bursts.of[f] = f}
Burst(f) == {c \in DOMAIN bursts.of : bursts.of[c] = f}
BurstResolved(f) == \A c \in Burst(f) : calls[c] = "resolved"

\* Round n issued its fs.write (fd was set when _flush() ran).
WriteIssued(n) == rounds[n].fd # NULL

\* ---- C1 --------------------------------------------------------------------
\* C1: after every completed flush round (the write plus the truncation it
\* triggers) the log file is smaller than MAX_LOG_FILE_SIZE, whatever the
\* sequence and batching of the calls.  Stated for the runs in which no I/O
\* operation failed or was partial, so that a violation is due to batching
\* alone.
C1_FileBelowCap ==
    (RoundsCompleted /\ Anomalies = 0) => FileSize < MAX_LOG_FILE_SIZE

\* ---- C2 --------------------------------------------------------------------
\* C2: after every completed flush round lines is smaller than
\* MAX_LOG_LINES, whatever the sequence and batching of the calls.  Stated
\* for the runs in which no I/O operation failed or was partial.
C2_LinesBelowCap ==
    (RoundsCompleted /\ Anomalies = 0) => lines < MAX_LOG_LINES

\* ---- C3 --------------------------------------------------------------------

\* The bytes of lines in s (everything but '\n'), in order.
DataBytes(s) == SelectSeq(s, LAMBDA x : x # newLineByte)

NonDecreasing(s) == \A i, j \in 1..Len(s) : i < j => s[i] <= s[j]

\* What is in the file, then what the rounds in flight are writing, then what
\* is queued.
RECURSIVE InFlightBytes(_)
InFlightBytes(n) ==
    IF n = 0 THEN <<>>
    ELSE InFlightBytes(n - 1) \o
         (IF rounds[n].pc = "write" THEN rounds[n].buf ELSE <<>>)

LineStream ==
    DataBytes((IF file = NoFile THEN <<>> ELSE file)
              \o InFlightBytes(Len(rounds))
              \o JoinLines(pendingWrites))

\* A step that starts a round hands it the whole queue, the line of the call
\* that starts it included, and leaves the queue empty.
TakesWholeQueue ==
    Len(rounds') > Len(rounds) =>
        LET r == rounds'[Len(rounds')]
            k == Len(pendingWrites)
        IN /\ pendingWrites' = <<>>
           /\ r.buf = JoinLines(r.snapshot)
           /\ \/ r.snapshot = pendingWrites /\ k > 0
              \/ /\ Len(r.snapshot) = k + 1
                 /\ SubSeq(r.snapshot, 1, k) = pendingWrites
                 /\ calls' # calls

\* C3: lines reach the file in the order of their writeLog calls (the bytes
\* of the file, of the write in flight and of the queue are in call order),
\* and a round that starts takes every queued line: none is skipped or
\* reordered.
C3_CallOrder == [](NonDecreasing(LineStream)) /\ [][TakesWholeQueue]_vars

\* A round of two or more lines was written and both ends are in the file.
C3_Witness ==
    \E n \in 1..Len(rounds) :
        /\ rounds[n].pc = "ok"
        /\ Len(rounds[n].snapshot) >= 2
        /\ file # NoFile
        /\ \E i, j \in 1..Len(file) :
            /\ i < j
            /\ file[i] = rounds[n].snapshot[1][1]
            /\ file[j] = rounds[n].snapshot[Len(rounds[n].snapshot)][1]
            /\ file[i] # file[j]

\* ---- C4 --------------------------------------------------------------------

RoundsInFlight == {n \in 1..Len(rounds) : InFlight(rounds[n])}

\* C4: at most one flush round (write or truncation) is outstanding at any
\* time, also when calls that waited on the previous round resume.
C4_SingleFlight == Cardinality(RoundsInFlight) <= 1

\* A call that waited on the previous round started this round, and another
\* call that waited with it follows the new round.
C4_Witness ==
    /\ Len(rounds) >= 2
    /\ InFlight(rounds[Len(rounds)])
    /\ \E i \in 1..Len(rounds[Len(rounds)].reactions) :
           rounds[Len(rounds)].reactions[i].t = "adopt"

\* ---- C5 --------------------------------------------------------------------

TwoRounds(f, R) ==
    /\ rounds[R].starter = f
    /\ rounds[R].buf = LineString(f, Len(rounds[R].buf) - 1) \o <<newLineByte>>
    /\ \A c \in Burst(f) \ {f} :
           \E i \in 1..Len(rounds[R + 1].buf) :
               rounds[R + 1].buf[i] = DataByte(c)
    /\ NonDecreasing(DataBytes(rounds[R + 1].buf))

WritesOf(R) == Cardinality({n \in {R, R + 1} : WriteIssued(n)})

ReportedRounds ==
    {n \in 1..Len(rounds) :
        rounds[n].pc = "err" /\ calls[rounds[n].starter] = "resolved"}

\* C7: a round in which an I/O operation failed (write, copy, rename, close,
\* re-open) ends by returning an error, never by throwing; a promise handed
\* out by writeLog or flush is rejected only after a round threw, which no
\* I/O failure causes; and each round that ended with an error is reported
\* to onError once, by the call that started it, whose promise resolves.
C7_FailuresReported ==
    /\ \A n \in 1..Len(rounds) : rounds[n].failed => rounds[n].pc = "err"
    /\ \A c \in DOMAIN calls :
           calls[c] = "rejected" =>
               \E n \in 1..Len(rounds) :
                   rounds[n].pc = "rejected" /\ ~rounds[n].failed
    /\ onErrors = Cardinality(ReportedRounds)

\* The write of a round failed; the error was reported and the promises of
\* the call that started it and of a call that waited on it have resolved.
C7_Witness ==
    \E n \in 1..Len(rounds) :
        /\ rounds[n].failed
        /\ n \in ReportedRounds
        /\ onErrors >= 1
        /\ \E c \in DOMAIN calls :
               c # rounds[n].starter /\ calls[c] = "resolved"

\* ---- C8 --------------------------------------------------------------------

\* C8: the promise of a level-method call is resolved only once the round
\* whose snapshot holds the call's line has completed, its truncation
\* included, also for a call whose line was taken by a round another call
\* started.
C8_ResolvedAfterRound ==
    \A c \in DOMAIN calls :
        (IsWrite(c) /\ calls[c] = "resolved") =>
            /\ \E n \in 1..Len(rounds) : HoldsLine(rounds[n], c)
            /\ \A n \in 1..Len(rounds) :
                   HoldsLine(rounds[n], c) => ~InFlight(rounds[n])

\* A call whose line went out in a round started by another call, with a
\* truncation, has resolved.
C8_Witness ==
    \E c \in DOMAIN calls :
        /\ IsWrite(c)
        /\ calls[c] = "resolved"
        /\ RoundOf(c) # 0
        /\ rounds[RoundOf(c)].starter # c
        /\ rounds[RoundOf(c)].position > 0

\* ---- C9 --------------------------------------------------------------------

\* C9: once every round has completed (with or without error, after a full
\* or a partial write), size is the byte length of the file at the log path.
C9_SizeIsFileLength == RoundsCompleted => size = FileSize

\* ---- C10 -------------------------------------------------------------------

NoPartialWrite == \A n \in 1..Len(rounds) : ~rounds[n].partial

\* C10 as stated: newLineOffsets.length = lines after every completed round
\* and truncation, partial writes included.
C10_OffsetsMatchLines == RoundsCompleted => Len(newLineOffsets) = lines

\* C10 (amended): after every completed round and truncation
\* newLineOffsets.length = lines, provided no write so far was partial (after
\* a partial write lines over-estimates).
C10_OffsetsMatchLinesFullWrites ==
    (RoundsCompleted /\ NoPartialWrite) => Len(newLineOffsets) = lines

\* A round that wrote in full and truncated has completed, lines remain.
C10_Witness ==
    /\ RoundsCompleted
    /\ NoPartialWrite
    /\ lines > 0
    /\ \E n \in 1..Len(rounds) :
           rounds[n].pc = "ok" /\ rounds[n].position > 0

\* ---- C11 -------------------------------------------------------------------

\* The bytes of the file at the log path.
FileBytes == IF file = NoFile THEN <<>> ELSE file

\* offs is strictly increasing and is the list of the positions (from 0) of
\* the '\n' bytes of f, each below sz.
OffsetsExact(offs, f, sz) ==
    /\ \A i, j \in 1..Len(offs) : i < j => offs[i] < offs[j]
    /\ \A i \in 1..Len(offs) :
           /\ offs[i] >= 0
           /\ offs[i] < sz
           /\ offs[i] < Len(f)
           /\ f[offs[i] + 1] = newLineByte
    /\ \A k \in 1..Len(f) :
           f[k] = newLineByte => \E i \in 1..Len(offs) : offs[i] = k - 1

\* open() has succeeded and no open() and no round is in progress.
OpenedAndQuiet ==
    /\ fd # NULL
    /\ \A p \in 1..Len(opens) : opens[p].pc = "done"
    /\ \A n \in 1..Len(rounds) : ~InFlight(rounds[n])

\* C11: after every completed open, flush round and truncation
\* newLineOffsets is strictly increasing and is exactly the list of the
\* positions of the newline bytes of the file at the log path, each < size.
C11_OffsetsExact ==
    OpenedAndQuiet => OffsetsExact(newLineOffsets, FileBytes, size)

\* ---- C12 -------------------------------------------------------------------

NewLineCount(f) == Cardinality({k \in 1..Len(f) : f[k] = newLineByte})

\* C12: once open() has succeeded on a fresh instance and before any write,
\* size is the byte length of the file found at the log path, lines the
\* number of its newline bytes and newLineOffsets their positions; a file
\* that does not exist is no error and leaves size 0, lines 0 and no offsets.
C12_OpenRecovers ==
    \A p \in 1..Len(opens) :
        /\ (opens[p].owner = 0 /\ opens[p].res = "ok" /\ calls = <<>>) =>
               /\ fd # NULL
               /\ hasOpened
               /\ size = Len(FileBytes)
               /\ lines = NewLineCount(FileBytes)
               /\ OffsetsExact(newLineOffsets, FileBytes, size)
        /\ (opens[p].owner = 0 /\ opens[p].pc = "open" /\ file = NoFile) =>
               size = 0 /\ lines = 0 /\ newLineOffsets = <<>>

\* open() has succeeded on a file of two lines and nothing was written yet.
C12_Witness ==
    /\ opens # <<>>
    /\ opens[1].res = "ok"
    /\ calls = <<>>
    /\ lines = 2
    /\ size = 5
    /\ newLineOffsets = <<1, 4>>

\* ---- C13 -------------------------------------------------------------------

\* f without its first k lines (everything up to and including its k-th
\* '\n').
RECURSIVE DropLines(_, _)
DropLines(f, k) ==
    IF k = 0 \/ f = <<>> THEN f
    ELSE DropLines(Tail(f), IF Head(f) = newLineByte THEN k - 1 ELSE k)

\* The counters describe the file at the log path: one offset per counted
\* line, each the position of a newline byte of the file.
CountersMatchFile ==
    /\ Len(newLineOffsets) = lines
    /\ size = Len(FileBytes)
    /\ OffsetsExact(newLineOffsets, FileBytes, size)

\* The rename of a truncation that a write bringing lines to exactly
\* MAX_LOG_LINES asked for.
LineCapRename(n) ==
    /\ n \in 1..Len(rounds)
    /\ rounds[n].pc = "rename"
    /\ rounds'[n].pc = "reopen"
    /\ lines = MAX_LOG_LINES
    /\ CountersMatchFile

\* Such a rename leaves the file without its floor(MAX_LOG_LINES / 4) + 1
\* oldest lines.
LineCutStep ==
    \A n \in 1..Len(rounds) :
        LineCapRename(n) =>
            /\ file' = DropLines(file, (MAX_LOG_LINES \div 4) + 1)
            /\ lines' = MAX_LOG_LINES - ((MAX_LOG_LINES \div 4) + 1)
            /\ NewLineCount(file') = lines'

\* C13: when a write brings lines to exactly MAX_LOG_LINES, the one
\* truncation of that round removes exactly floor(MAX_LOG_LINES / 4) + 1 of
\* the oldest lines: the file becomes its newest lines, in their order and
\* with their content, and lines counts them.
C13_LineCut == [][LineCutStep]_vars

\* Such a truncation has renamed: the lines written last are the file.
C13_Witness ==
    \E n \in 1..Len(rounds) :
        /\ rounds[n].pc = "reopen"
        /\ rounds[n].lineIndex = MAX_LOG_LINES \div 4
        /\ ~rounds[n].partial
        /\ lines = MAX_LOG_LINES - ((MAX_LOG_LINES \div 4) + 1)
        /\ CountersMatchFile
        /\ \A k \in 1..Len(file) : file[k] # ForeignByte

\* ---- C14 -------------------------------------------------------------------

\* The least entry of offs that is at least m.
FirstAtOrAfter(offs, m) ==
    CHOOSE o \in {offs[i] : i \in 1..Len(offs)} :
        /\ o >= m
        /\ \A i \in 1..Len(offs) : offs[i] >= m => o <= offs[i]

\* The write of round n has asked for a truncation by the size trigger, with
\* a recorded newline to cut at.
SizeCapWrite(n) ==
    /\ n \in 1..Len(rounds)
    /\ rounds[n].pc = "write"
    /\ rounds'[n].pc = "pipeline"
    /\ lines' < MAX_LOG_LINES
    /\ rounds'[n].lineIndex # -1

\* The rename of a truncation the size trigger asked for, while the counters
\* describe the file.
SizeCapRename(n) ==
    /\ n \in 1..Len(rounds)
    /\ rounds[n].pc = "rename"
    /\ rounds'[n].pc = "reopen"
    /\ lines < MAX_LOG_LINES
    /\ size = Len(FileBytes)
    /\ OffsetsExact(newLineOffsets, FileBytes, size)

\* After the rename the file is shorter and the offsets are those of the
\* new file.
SizeCutRebased ==
    \A n \in 1..Len(rounds) :
        SizeCapRename(n) =>
            /\ size' < size
            /\ Len(file') < Len(file)
            /\ size' = Len(file')
            /\ OffsetsExact(newLineOffsets', file', size')

TruncationFailed(n) ==
    /\ n = Len(rounds)
    /\ rounds[n].pc = "err"
    /\ rounds[n].failed
    /\ rounds[n].before # NoCounters

\* The error of round n reaches onError when the call that started the round
\* resumes.
Reported(n) ==
    calls[rounds[n].starter] # "pending" =>
        /\ calls[rounds[n].starter] = "resolved"
        /\ onErrors >= 1

CountersNow == Counters(lines, size, newLineOffsets)

\* C15 as stated: whichever step of a truncation failed, the error is
\* reported and size, lines and newLineOffsets have the values they had when
\* the truncation began.
C15_CountersKept ==
    \A n \in 1..Len(rounds) :
        TruncationFailed(n) =>
            Reported(n) /\ CountersNow = rounds[n].before

\* The counters after the rename of a truncation that began with counters b,
\* cutting at position with lineIndex.
CountersAfterRename(b, position, lineIndex) ==
    IF lineIndex = -1 THEN Counters(0, 0, <<>>)
    ELSE Counters(b.lines - (lineIndex + 1), b.size - position,
                  [i \in 1..(Len(b.offs) - (lineIndex + 1)) |->
                      b.offs[i + lineIndex + 1] - position])

\* C15 (amended): a failing step of a truncation is reported via onError;
\* size, lines and newLineOffsets keep their pre-truncation values when the
\* copy or the rename failed, and hold the post-truncation values (those of
\* the renamed file) when the close or the re-open after the rename failed.
C15_CountersFollowRename ==
    \A n \in 1..Len(rounds) :
        TruncationFailed(n) =>
            /\ Reported(n)
            /\ CountersNow =
                   (IF rounds[n].oldFd = NULL THEN rounds[n].before
                    ELSE CountersAfterRename(rounds[n].before,
                                             rounds[n].position,
                                             rounds[n].lineIndex))

\* The re-open of a truncation failed after the rename, and the error has
\* been reported.
C15_Witness ==
    \E n \in 1..Len(rounds) :
        /\ TruncationFailed(n)
        /\ rounds[n].oldFd # NULL
        /\ rounds[n].lineIndex >= 0
        /\ fd = rounds[n].oldFd
        /\ calls[rounds[n].starter] = "resolved"
        /\ onErrors = 1

\* ---- C16 -------------------------------------------------------------------

\* Round n is the last round; its truncation found no newline offset to cut
\* at (lineIndex = -1) and none of its I/O steps failed.
DegenerateDone(n) ==
    /\ n = Len(rounds)
    /\ rounds[n].before # NoCounters
    /\ rounds[n].lineIndex = -1
    /\ rounds[n].pc \in {"ok", "err"}
    /\ ~rounds[n].failed

\* C16: a truncation that finds no newline offset to cut at resets the
\* counters, closes the old descriptor and re-runs open(), so the round
\* completes without error and the logger holds a fresh open descriptor with
\* counters equal to those of the file at the log path.
C16_DegenerateReopens ==
    \A n \in 1..Len(rounds) :
        DegenerateDone(n) =>
            /\ rounds[n].pc = "ok"
            /\ fd # NULL
            /\ fdTable[fd] = "cur"
            /\ size = Len(FileBytes)
            /\ lines = NewLineCount(FileBytes)
            /\ OffsetsExact(newLineOffsets, FileBytes, size)

\* ---- C17 -------------------------------------------------------------------

\* Round n ended at its write: fs.write failed, or fd was null when _flush()
\* ran and no write was issued.
WriteFailed(rs, n) ==
    /\ rs[n].pc = "err"
    /\ rs[n].before = NoCounters
    /\ rs[n].failed \/ rs[n].fd = NULL

\* The step in which round n ends at its write.
WriteFails(n) ==
    /\ WriteFailed(rounds', n)
    /\ n > Len(rounds) \/ rounds[n].pc = "write"

\* No line of round n is queued or in the file.
Dropped(r, pw, f) ==
    \A i \in 1..Len(r.snapshot) :
        r.snapshot[i][1] # newLineByte =>
            /\ \A j \in 1..Len(pw) : pw[j] # r.snapshot[i]
            /\ \A k \in 1..Len(f) : f[k] # r.snapshot[i][1]

WriteFailureStep ==
    \A n \in 1..Len(rounds') :
        /\ WriteFails(n) =>
               /\ UNCHANGED <<size, lines, newLineOffsets, bytesWritten, file>>
               /\ onErrors' = onErrors
        /\ WriteFailed(rounds', n) =>
               Dropped(rounds'[n], pendingWrites', FileBytes')
        /\ (n <= Len(rounds) /\ WriteFailed(rounds, n)) =>
               IF /\ calls[rounds[n].starter] = "pending"
                  /\ calls'[rounds[n].starter] # "pending"
               THEN /\ onErrors' = onErrors + 1
                    /\ calls'[rounds[n].starter] = "resolved"
               ELSE onErrors' # onErrors => (mq # <<>> /\ Head(mq).n # n)

\* C17: when the write of a round fails, or fd is null when the round
\* starts, the failing step leaves size, lines, newLineOffsets and
\* bytesWritten unchanged; the round's lines are neither queued again nor
\* ever written to the file; and onError is called for the round exactly
\* once, when the call that started the round resumes.
C17_WriteFailureDrops == [][WriteFailureStep]_vars

\* A failed write has been reported, once, and a later round has written
\* to the file.
C17_Witness ==
    \E n, m \in 1..Len(rounds) :
        /\ WriteFailed(rounds, n)
        /\ rounds[n].failed
        /\ calls[rounds[n].starter] = "resolved"
        /\ rounds[m].pc = "ok"
        /\ m > n
        /\ onErrors = 1
        /\ file # NoFile

\* ---- C18 -------------------------------------------------------------------

\* Byte k of f is the first byte of a log line written by a level-method
\* call, directly after a byte of another call's line.
JoinedAt(f, k) ==
    /\ f[k] \notin {newLineByte, ForeignByte}
    /\ f[k - 1] \notin {newLineByte, ForeignByte}
    /\ f[k] # f[k - 1]

\* C18: the bare newline pushed after a partial write re-synchronises line
\* boundaries, so every log line in the file starts directly after a newline
\* byte (or after what the file held before the logger opened it) and never
\* directly after the fragment of another line, whatever was queued while
\* the partial write was in flight.
C18_LinesStartAfterNewline ==
    \A k \in 2..Len(FileBytes) : ~JoinedAt(FileBytes, k)

\* ---- C19 -------------------------------------------------------------------

\* Every call made so far has completed and nothing is left to run.
Quiet ==
    /\ mq = <<>>
    /\ \A c \in DOMAIN calls : calls[c] # "pending"

\* The step is a call of flush() by the user.
FlushIssued == \E c \in DOMAIN calls' : c \notin DOMAIN calls /\ ~IsWrite(c)

\* No round is started and no field of the logger, nor the file, changes.
NothingDone ==
    /\ rounds' = rounds
    /\ UNCHANGED <<fd, lines, size, bytesWritten, writeCalled, newLineOffsets,
                   pendingFlush, pendingWrites, hasOpened, file, tmp, fdTable,
                   onErrors>>

\* C19 as stated: flush() called when every earlier call has completed and
\* no writeLog was issued since starts no write and changes no state.
C19_FlushIdempotent == [][(Quiet /\ FlushIssued) => NothingDone]_vars

\* C19 (amended): flush() called when every earlier call has completed and
\* the queue is empty starts no write and changes no state.  (After a
\* partial write the queue holds a bare newline, which the next flush()
\* writes.)
C19_FlushIdempotentEmptyQueue ==
    [][(Quiet /\ FlushIssued /\ pendingWrites = <<>>) => NothingDone]_vars

\* Lines were written in full, then flush() was called and resolved without
\* starting a round.
C19_Witness ==
    /\ Quiet
    /\ pendingWrites = <<>>
    /\ pendingFlush = NULL
    /\ rounds # <<>>
    /\ \A n \in 1..Len(rounds) :
           rounds[n].pc = "ok" /\ ~rounds[n].partial /\ IsWrite(rounds[n].starter)
    /\ \E c \in DOMAIN calls : ~IsWrite(c) /\ calls[c] = "resolved"
    /\ bytesWritten > 0

\* ---- C20 -------------------------------------------------------------------

\* Level-method calls whose serialisation threw.
ThrownCalls == {c \in DOMAIN calls : calls[c] = "null"}

\* The step is a level-method call whose serialisation throws.
Throws == \E c \in DOMAIN calls' : c \notin DOMAIN calls /\ calls'[c] = "null"

\* The call reports to onError once and touches nothing else: nothing is
\* queued, no round starts, nothing is scheduled.
CaughtStep ==
    Throws =>
        /\ onErrors' = onErrors + 1
        /\ UNCHANGED <<loggerVars, fsVars, rounds, mq>>

\* No byte of call c is queued, in a round's buffer or in the file.
NoLineOf(c) ==
    /\ \A j \in 1..Len(pendingWrites) : pendingWrites[j][1] # DataByte(c)
    /\ \A n \in 1..Len(rounds) : ~HoldsLine(rounds[n], c)
    /\ \A k \in 1..Len(FileBytes) : FileBytes[k] # DataByte(c)

\* C20: a level-method call whose serialisation throws returns normally
\* (null, no exception), calls onError exactly once, queues nothing and
\* never puts a line in the file: onError has been called once per such call
\* and once per round reported, and never more.
C20_ThrowCaught ==
    /\ [][CaughtStep]_vars
    /\ [](/\ \A c \in ThrownCalls : NoLineOf(c)
          /\ onErrors = Cardinality(ThrownCalls) + Cardinality(ReportedRounds))

\* A call whose serialisation threw was reported, and a later call's line
\* reached the file.
C20_Witness ==
    \E c \in ThrownCalls :
        /\ onErrors = 1
        /\ \E d \in DOMAIN calls :
               /\ d > c
               /\ calls[d] = "resolved"
               /\ \E k \in 1..Len(FileBytes) : FileBytes[k] = DataByte(d)

\* ---- C21 -------------------------------------------------------------------

\* The exceptions MainLogger._log throws.
UsageErrors ==
    {"Must call open() first.", "msg is mandatory", "info must be object"}

\* The step is level-method call c.
LogIssued(c) == c \in DOMAIN args' /\ c \notin DOMAIN args

\* Call c threw, queued nothing and issued no write: no field of the logger
\* changed, no round started, nothing was scheduled.
ThrewOnly(c) ==
    /\ calls'[c] \in UsageErrors
    /\ UNCHANGED <<loggerVars, fsVars, rounds, mq, onErrors>>

\* msg is missing or is not a string.
BadMsg(a) == a.msg = "undefined" \/ TypeOf(a.msg) # "string"

\* C21 as stated: a level-method call made before open() has succeeded, or
\* with a missing or non-string msg, or with an info that is given and is
\* not an object, throws synchronously, queues nothing and issues no write.
C21_UsageErrorThrows ==
    [][\A c \in DOMAIN args' :
          (/\ LogIssued(c)
           /\ \/ ~args'[c].opened
              \/ BadMsg(args'[c])
              \/ args'[c].info \notin {"undefined", "{}"})
          => ThrewOnly(c)]_vars

\* C21 restricted to what the checks of _log catch: a level-method call made
\* before open() has succeeded, or with a missing or non-string msg, or with
\* a truthy info that is not an object, throws synchronously, queues
\* nothing and issues no write.
C21_UsageErrorThrowsTruthy ==
    [][\A c \in DOMAIN args' :
          (/\ LogIssued(c)
           /\ \/ ~args'[c].opened
              \/ BadMsg(args'[c])
              \/ (Truthy(args'[c].info) /\ args'[c].info # "{}"))
          => ThrewOnly(c)]_vars

\* After open() succeeded and a line was written, a call with a string as
\* info threw, and so did a call made before open().
C21_Witness ==
    \E c, d \in DOMAIN args :
        /\ args[c].opened
        /\ args[c].msg = "'foo'"
        /\ args[c].info = "'bar'"
        /\ calls[c] = "info must be object"
        /\ ~args[d].opened
        /\ calls[d] = "Must call open() first."
        /\ bytesWritten > 0
        /\ pendingWrites = <<>>

\* ---- C22 -------------------------------------------------------------------

\* The step is call p of open() by the user.
OpenIssued(p) == p = Len(opens') /\ Len(opens) = p - 1 /\ opens'[p].owner = 0

\* C22: open() called while the logger holds a descriptor returns at once
\* with the error 'Cannot open twice()' ("twice", a plain Error and not the
\* OpenFailError of a failing step) and leaves fd, the counters, the queue
\* and the file untouched.
C22_OpenTwice ==
    [][\A p \in 1..Len(opens') :
          (OpenIssued(p) /\ fd # NULL) =>
              /\ opens'[p].pc = "done"
              /\ opens'[p].res = "twice"
              /\ UNCHANGED <<loggerVars, fsVars, rounds, mq>>]_vars

\* open() succeeded, lines were written, and a second open() was refused.
C22_Witness ==
    /\ Len(opens) = 2
    /\ opens[1].res = "ok"
    /\ opens[2].owner = 0
    /\ opens[2].res = "twice"
    /\ bytesWritten > 0
    /\ fd # NULL
    /\ fdTable[fd] = "cur"

\* ---- C23 -------------------------------------------------------------------

\* The step in which call p of open() returns the error of a failed step.
OpenFails(p) ==
    /\ opens[p].pc \in {"mkdir", "read", "open"}
    /\ opens'[p].pc = "done"
    /\ opens'[p].res # "ok"

\* C23: the OpenFailError open() returns has shouldBail = true exactly when
\* the step that failed is the descriptor open and its code is EACCES; a
\* failed mkdir, a failed read of the existing file (EACCES included) and any
\* other failure of the descriptor open have shouldBail = false.
C23_BailOnlyOnOpenEacces ==
    [][\A p \in 1..Len(opens) :
          OpenFails(p) =>
              /\ opens'[p].res = opens[p].pc
              /\ opens'[p].bail =
                     (opens[p].pc = "open" /\ opens'[p].code = "EACCES")]_vars

\* The descriptor open failed with EACCES after the existing file was read,
\* and the error says to bail.
C23_Witness ==
    /\ opens # <<>>
    /\ opens[1].pc = "done"
    /\ opens[1].res = "open"
    /\ opens[1].code = "EACCES"
    /\ opens[1].bail
    /\ size = 5
    /\ fd = NULL
    /\ ~hasOpened

\* ---- C24 -------------------------------------------------------------------

\* Line a is stored as a line over the cap is: the truncated field has
\* MAX_LOG_LINE_SIZE characters, the first MAX_LOG_LINE_SIZE - 3 of the
\* original serialisation followed by '...'.
StoredTruncated(a) ==
    /\ Len(a.stored.truncated) = MAX_LOG_LINE_SIZE
    /\ \A i \in 1..(MAX_LOG_LINE_SIZE - 3) : a.stored.truncated[i] = a.str[i]
    /\ \A i \in (MAX_LOG_LINE_SIZE - 2)..MAX_LOG_LINE_SIZE :
           a.stored.truncated[i] = Dot
    /\ a.stored.fields = "{isTruncated: true}"
    /\ a.stored.level = (IF a.level = "info" THEN "warn" ELSE a.level)

\* C24: a line whose serialisation is longer than MAX_LOG_LINE_SIZE is
\* stored with a truncated field of exactly MAX_LOG_LINE_SIZE characters
\* (the first MAX_LOG_LINE_SIZE - 3 of the serialisation, then '...'), fields
\* {isTruncated: true} and level warn in place of info; a line within the
\* cap is stored with its level and fields and no truncated field.
C24_LineTruncation ==
    \A k \in 1..Len(args) :
        IF Len(args[k].str) > MAX_LOG_LINE_SIZE
        THEN StoredTruncated(args[k])
        ELSE /\ args[k].stored.level = args[k].level
             /\ args[k].stored.fields = args[k].fields
             /\ args[k].stored.truncated = NoTruncated

\* An info line one character over the cap was stored truncated as warn,
\* and a line of exactly the cap was stored as it is.
C24_Witness ==
    /\ Len(args) = 2
    /\ args[1].level = "info"
    /\ Len(args[1].str) = MAX_LOG_LINE_SIZE + 1
    /\ args[1].stored.level = "warn"
    /\ Len(args[1].stored.truncated) = MAX_LOG_LINE_SIZE
    /\ Len(args[2].str) = MAX_LOG_LINE_SIZE
    /\ args[2].stored.truncated = NoTruncated

\* ---- C25 -------------------------------------------------------------------

\* Steps of call k of destroy(): the call, the close failing, the close
\* succeeding, the unlink completing.
DestroyIssued(k) == k = Len(destroys') /\ Len(destroys) = k - 1
CloseFailed(k) ==
    destroys[k].pc = "close" /\ destroys'[k].pc = "done"
CloseSucceeded(k) ==
    destroys[k].pc = "close" /\ destroys'[k].pc = "unlink"
Unlinked(k) ==
    destroys[k].pc = "unlink" /\ destroys'[k].pc = "done"

DestroyStep ==
    /\ \A k \in 1..Len(destroys') :
        /\ DestroyIssued(k) =>
               /\ destroys'[k].pc = "close"
               /\ destroys'[k].fd = fd
               /\ UNCHANGED <<fd, file, fdTable>>
        /\ (k <= Len(destroys) /\ CloseFailed(k)) =>
               /\ destroys'[k].res = "close"
               /\ UNCHANGED <<fd, file, fdTable>>
        /\ (k <= Len(destroys) /\ CloseSucceeded(k)) =>
               /\ fdTable'[destroys[k].fd] = "closed"
               /\ fd' = NULL
               /\ file' = file
        /\ (k <= Len(destroys) /\ Unlinked(k)) =>
               /\ destroys'[k].res \in {"ok", "unlink"}
               /\ fd' = fd
               /\ (destroys'[k].res = "ok") = (file' = NoFile)
               /\ destroys'[k].res = "unlink" => file' = file
    /\ (file # NoFile /\ file' = NoFile) =>
           \E k \in 1..Len(destroys) : Unlinked(k)

\* C25: destroy() issues the close on the descriptor the logger holds and
\* leaves fd set while the close is pending; fd is cleared when the close
\* has succeeded, and only then is the file removed; a failed close returns
\* the error with fd still set and the file in place; a failed unlink
\* returns the error; the file is removed by nothing but the unlink of a
\* destroy() whose close succeeded.
C25_DestroyOrder == [][DestroyStep]_vars

\* Lines were written, then destroy() closed the descriptor and removed the
\* file.
C25_Witness ==
    /\ Len(destroys) = 1
    /\ destroys[1].res = "ok"
    /\ destroys[1].fd # NULL
    /\ file = NoFile
    /\ fd = NULL
    /\ bytesWritten > 0
    /\ fdTable[destroys[1].fd] = "closed"

\* ---- C26 -------------------------------------------------------------------

\* The step in which the write of round n completes without error.
WriteSucceeded(n) ==
    /\ rounds[n].pc = "write"
    /\ rounds'[n].pc \in {"ok", "pipeline", "rejected"}

\* Round r cuts at the first entry of offs, in order, that is greater than
\* m, or has lineIndex -1 when there is none.
CutsAfterMark(r, offs, m) ==
    IF \E i \in 1..Len(offs) : offs[i] > m
    THEN \E i \in 1..Len(offs) :
             /\ offs[i] > m
             /\ \A j \in 1..(i - 1) : offs[j] <= m
             /\ r.lineIndex = i - 1
             /\ r.position = offs[i] + 1
    ELSE r.lineIndex = -1

\* C26: after each successful write the line trigger is evaluated first:
\* with lines >= MAX_LOG_LINES the cut is at newline index
\* floor(MAX_LOG_LINES / 4), whatever size is (the round throws when
\* newLineOffsets has no such entry); otherwise, with size >=
\* MAX_LOG_FILE_SIZE, the cut is at the first recorded offset strictly
\* greater than floor(MAX_LOG_FILE_SIZE / 4), or lineIndex is -1 when none
\* is; otherwise the round ends without truncation.
C26_TriggerOrder ==
    [][\A n \in 1..Len(rounds) :
          WriteSucceeded(n) =>
              IF lines' >= MAX_LOG_LINES
              THEN IF Len(newLineOffsets') > MAX_LOG_LINES \div 4
                   THEN /\ rounds'[n].pc = "pipeline"
                        /\ rounds'[n].lineIndex = MAX_LOG_LINES \div 4
                        /\ rounds'[n].position =
                               newLineOffsets'[(MAX_LOG_LINES \div 4) + 1] + 1
                   ELSE rounds'[n].pc = "rejected"
              ELSE IF size' >= MAX_LOG_FILE_SIZE
              THEN /\ rounds'[n].pc = "pipeline"
                   /\ CutsAfterMark(rounds'[n], newLineOffsets',
                                    MAX_LOG_FILE_SIZE \div 4)
              ELSE rounds'[n].pc = "ok"]_vars

\* Both caps were reached by one write and the cut is the line trigger's,
\* which differs from the one the size trigger would have made.
C26_Witness ==
    \E n \in 1..Len(rounds) :
        /\ rounds[n].pc = "pipeline"
        /\ rounds[n].before.lines >= MAX_LOG_LINES
        /\ rounds[n].before.size >= MAX_LOG_FILE_SIZE
        /\ rounds[n].lineIndex = MAX_LOG_LINES \div 4
        /\ ~CutsAfterMark(rounds[n], rounds[n].before.offs,
                          MAX_LOG_FILE_SIZE \div 4)

\* ---- C27 -------------------------------------------------------------------

\* The snapshot and the buffer of a round never change, and no round issues
\* a second write.
SnapshotFixed ==
    \A n \in 1..Len(rounds) :
        /\ rounds'[n].snapshot = rounds[n].snapshot
        /\ rounds'[n].buf = rounds[n].buf
        /\ rounds'[n].pc = "write" => rounds[n].pc = "write"

\* A line queued by a level-method call made while a round is in flight
\* goes to the end of the queue and into no round.
QueuedBehindRound ==
    \A c \in DOMAIN calls' :
        (/\ c \notin DOMAIN calls
         /\ IsWrite(c)
         /\ pendingFlush # NULL
         /\ InFlight(rounds[pendingFlush]))
        => /\ Len(rounds') = Len(rounds)
           /\ Len(pendingWrites') = Len(pendingWrites) + 1
           /\ SubSeq(pendingWrites', 1, Len(pendingWrites)) = pendingWrites
           /\ pendingWrites'[Len(pendingWrites')][1] = DataByte(c)

\* A completing write is the one write of one round.
OneWriteCompletes ==
    writeCalled' # writeCalled =>
        /\ writeCalled' = writeCalled + 1
        /\ Cardinality({n \in 1..Len(rounds) :
               rounds[n].pc = "write" /\ rounds'[n].pc # "write"}) = 1

\* C27 as stated: a starting round captures the whole queue and empties it
\* in one step; a line queued while a round is in flight is not part of that
\* round and is in the queue the next round captures; and every round issues
\* exactly one write, whatever the number of lines in its snapshot.
C27_OneWritePerRound ==
    [][/\ TakesWholeQueue
       /\ SnapshotFixed
       /\ QueuedBehindRound
       /\ OneWriteCompletes
       /\ Len(rounds') > Len(rounds) =>
              rounds'[Len(rounds')].pc = "write"]_vars

\* C27 (amended): as C27, except that a round issues exactly one write when
\* fd is set as it starts and none when fd is null.
C27_OneWritePerRoundWithFd ==
    [][/\ TakesWholeQueue
       /\ SnapshotFixed
       /\ QueuedBehindRound
       /\ OneWriteCompletes
       /\ Len(rounds') > Len(rounds) =>
              rounds'[Len(rounds')].pc =
                  (IF fd = NULL THEN "err" ELSE "write")]_vars

\* Two lines were queued while the first round was in flight; the second
\* round wrote both with one write.
C27_Witness ==
    /\ Len(rounds) = 2
    /\ rounds[1].pc = "ok"
    /\ rounds[2].pc = "ok"
    /\ Len(rounds[1].snapshot) = 1
    /\ Len(rounds[2].snapshot) = 2
    /\ writeCalled = 2
    /\ pendingWrites = <<>>
    /\ \A c \in DOMAIN calls : calls[c] = "resolved"

\* ---- C28 -------------------------------------------------------------------

\* The copy or the rename of round n is pending.
BeforeRename(r) == r.pc \in {"pipeline", "rename"}

TwoPhaseStep ==
    \A n \in 1..Len(rounds) :
        \* the rename is issued by a copy that completed, path untouched
        /\ (rounds'[n].pc = "rename" /\ rounds[n].pc # "rename") =>
               /\ rounds[n].pc = "pipeline"
               /\ tmp' = TailFrom(file, rounds[n].position)
               /\ file' = file
        \* the counters and the descriptor move on after the rename only
        /\ (rounds'[n].pc \in {"close", "reopen"}
              /\ rounds[n].pc # rounds'[n].pc) =>
               /\ rounds[n].pc = "rename"
               /\ file' = tmp
               /\ fd' = fd
        \* a failed copy or rename leaves the path and the descriptor
        /\ (BeforeRename(rounds[n]) /\ rounds'[n].pc = "err") =>
               UNCHANGED <<file, fd, fdTable, lines, size, newLineOffsets>>
        \* until the rename succeeds nothing touches the path or the
        \* descriptor
        /\ (BeforeRename(rounds[n]) /\ BeforeRename(rounds'[n])) =>
               UNCHANGED <<file, fd, fdTable>>

\* C28: during a truncation the file at the log path keeps its whole
\* content until the rename succeeds: the rename is issued only by a copy
\* that completed without error, the descriptor is swapped only after the
\* rename succeeded, and a failed copy or rename leaves the file unchanged.
C28_TwoPhase == [][TwoPhaseStep]_vars

\* The rename of a truncation failed: the path still holds the whole file,
\* the copy is in the temp file and the descriptor is the one opened first.
C28_Witness ==
    \E n \in 1..Len(rounds) :
        /\ rounds[n].pc = "err"
        /\ rounds[n].failed
        /\ rounds[n].before # NoCounters
        /\ rounds[n].oldFd = NULL
        /\ tmp # NoFile
        /\ tmp # <<>>
        /\ Len(FileBytes) = rounds[n].position + Len(tmp)
        /\ fd # NULL
        /\ fdTable[fd] = "cur"

\* ---- C29 -------------------------------------------------------------------

\* The rename of round n, a truncation with a valid cut, succeeds.
ValidCutRename(n) ==
    /\ rounds[n].pc = "rename"
    /\ rounds'[n].pc = "reopen"
    /\ rounds[n].lineIndex >= 0

\* The counters after the step are those before it, cut at position.
CountersCut(n) ==
    Counters(lines', size', newLineOffsets') =
        CountersAfterRename(CountersNow, rounds[n].position,
                            rounds[n].lineIndex)

\* The file after the step is the old file from byte position to the end.
FileCut(n) == file' = TailFrom(file, rounds[n].position)

\* Byte position of f is the first byte after a newline byte of f.
AtLineBoundary(f, position) ==
    /\ position \in 1..Len(f)
    /\ f[position] = newLineByte

\* C29: after a successful truncation with lineIndex >= 0, lines has
\* decreased by lineIndex + 1, size by position, newLineOffsets has lost its
\* first lineIndex + 1 entries and every other entry is reduced by position,
\* and the file is the old content from byte position to the end, which
\* starts at a line boundary.
C29_ValidCut ==
    [][\A n \in 1..Len(rounds) :
           ValidCutRename(n) =>
               /\ CountersCut(n)
               /\ FileCut(n)
               /\ AtLineBoundary(file, rounds[n].position)]_vars

\* C29 without its last clause: the counters and the content after the cut.
C29_ValidCutCounters ==
    [][\A n \in 1..Len(rounds) :
           ValidCutRename(n) => CountersCut(n) /\ FileCut(n)]_vars

\* ---- C30 -------------------------------------------------------------------

\* The step completes the fs.write of round n without error.
WriteCompletes(n) ==
    /\ rounds[n].pc = "write"
    /\ rounds'[n].pc # "write"
    /\ ~WriteFails(n)

\* The offsets of the newline bytes among the first b bytes of buf, for a
\* buffer written at file offset sz.
NewLinesWithin(buf, b, sz) ==
    {sz + i : i \in {j \in 0..(b - 1) : buf[j + 1] = newLineByte}}

\* offs2 is offs followed by the members of s in increasing order.
GainedExactly(offs, offs2, s) ==
    /\ Len(offs2) = Len(offs) + Cardinality(s)
    /\ SubSeq(offs2, 1, Len(offs)) = offs
    /\ {offs2[i] : i \in (Len(offs) + 1)..Len(offs2)} = s
    /\ \A i \in (Len(offs) + 1)..(Len(offs2) - 1) : offs2[i] < offs2[i + 1]

\* The counters after a write that transferred b bytes of round n's buffer.
CountedStep(n, b) ==
    /\ b \in 0..Len(rounds[n].buf)
    /\ size' = size + b
    /\ lines' = lines + Len(rounds[n].snapshot)
    /\ GainedExactly(newLineOffsets, newLineOffsets',
                     NewLinesWithin(rounds[n].buf, b, size))
    /\ fdTable[rounds[n].fd] = "cur" =>
           file' = file \o SubSeq(rounds[n].buf, 1, b)
    /\ rounds'[n].partial = (b # Len(rounds[n].buf))

WriteCountsStep ==
    /\ bytesWritten' >= bytesWritten
    /\ \A n \in 1..Len(rounds) :
           WriteCompletes(n) => CountedStep(n, bytesWritten' - bytesWritten)

\* C30: a successful, possibly partial, write of a round with k snapshot
\* entries that transferred b bytes adds b to size and to bytesWritten, k to
\* lines, and one entry size + i to newLineOffsets for each newline byte at
\* buffer index i < b; bytesWritten never decreases in any step.
C30_WriteCounts == [][WriteCountsStep]_vars

\* A partial write of two snapshot entries has transferred the first
\* newline only, and a truncation has run since: lines counts both entries,
\* bytesWritten exceeds size.
C30_Witness ==
    \E n \in 1..Len(rounds) :
        /\ rounds[n].partial
        /\ Len(rounds[n].snapshot) = 2
        /\ rounds[n].pc = "ok"
        /\ \E m \in 1..Len(rounds) : rounds[m].oldFd # NULL
        /\ bytesWritten > size
        /\ lines > Len(newLineOffsets)

\* ---- C31 -------------------------------------------------------------------

\* Call p of open() has returned without error.
OpenSucceeded(os, p) == os[p].pc = "done" /\ os[p].res = "ok"

\* Call p of open() has returned an error from one of its three steps.
OpenFailed(os, p) ==
    os[p].pc = "done" /\ os[p].res \in {"mkdir", "read", "open"}

LatchStep ==
    /\ hasOpened => hasOpened'
    /\ hasOpened' = (\E p \in 1..Len(opens') : OpenSucceeded(opens', p))

\* C31: hasOpened is false until the first open() succeeds and stays true
\* from then on: no failed later open(), failed write or truncation, nor
\* destroy() resets it.
C31_HasOpenedLatched == [][LatchStep]_vars

\* After a successful open() and a successful destroy(), a second open()
\* has failed: hasOpened still is true while fd is null.
C31_Witness ==
    /\ hasOpened
    /\ fd = NULL
    /\ \E k \in 1..Len(destroys) : destroys[k].res = "ok"
    /\ \E p \in 1..Len(opens) : OpenFailed(opens, p) /\ opens[p].res = "open"

\* ---- C32 -------------------------------------------------------------------

CallIds == (-MaxEvents..MaxEvents) \ {0}

\* The promise of call c has been returned and is not settled.
Pending(c) == c \in DOMAIN calls /\ calls[c] = "pending"

\* The promise of call c is resolved.
Resolved(c) == c \in DOMAIN calls /\ calls[c] = "resolved"

\* The line of writeLog call c is in the queue.
Queued(c) ==
    \E i \in 1..Len(pendingWrites) : pendingWrites[i][1] = DataByte(c)

\* C32: when every I/O operation completes, every promise returned by
\* writeLog or flush eventually resolves and every line enqueued by writeLog
\* is eventually taken out of the queue by a flush round.
C32_EveryLineTaken ==
    \A c \in CallIds :
        /\ Pending(c) ~> Resolved(c)
        /\ Queued(c) ~> ~Queued(c)

\* Some flush round has rejected: createReadStream threw on start: NaN.
SomeRoundRejected == \E n \in 1..Len(rounds) : rounds[n].pc = "rejected"

\* C32 for the behaviours in which no flush round throws: every promise
\* resolves and every line leaves the queue.
C32_EveryLineTakenUnlessRejected ==
    \A c \in CallIds :
        /\ Pending(c) ~> (Resolved(c) \/ SomeRoundRejected)
        /\ Queued(c) ~> (~Queued(c) \/ SomeRoundRejected)

\* ---- C33 -------------------------------------------------------------------

\* No open(), flush round, truncation or destroy() is in progress and no
\* promise reaction is left to run.
NothingInProgress ==
    /\ RoundsInFlight = {}
    /\ \A p \in 1..Len(opens) : opens[p].pc = "done"
    /\ \A k \in 1..Len(destroys) : destroys[k].pc = "done"
    /\ mq = <<>>

\* Descriptor d is open and refers to the file at the log path.
RefersToPath(d) == fdTable[d] = "cur"

\* C33: whenever no open, flush, truncation or destroy is in progress, fd
\* is null or an open descriptor of the file at the log path: never a closed
\* descriptor, never a descriptor of the file that rename replaced.
C33_FdRefersToPath == NothingInProgress => (fd = NULL \/ RefersToPath(fd))

\* The descriptor is never one that rename left behind.
C33_FdNotOrphaned ==
    NothingInProgress => (fd = NULL \/ fdTable[fd] # "orphan")

\* The descriptor is never one that was closed.
C33_FdNotClosed ==
    NothingInProgress => (fd = NULL \/ fdTable[fd] # "closed")

\* ---- C34 -------------------------------------------------------------------

\* The write of round n completes without error and brings lines to the cap.
LineTriggerFires(n) == WriteSucceeded(n) /\ lines' >= MAX_LOG_LINES

\* The entry the line trigger reads exists, and the truncation is started
\* just after it.
CutAtRecordedOffset(n) ==
    /\ Len(newLineOffsets') > LineCutIndex
    /\ rounds'[n].pc = "pipeline"
    /\ rounds'[n].position = newLineOffsets'[LineCutIndex + 1] + 1

\* C34: whenever the line trigger fires, newLineOffsets has more than
\* floor(MAX_LOG_LINES / 4) entries, so the position passed to _truncate is
\* a recorded newline offset plus one, never undefined + 1.
C34_LineCutDefined ==
    [][\A n \in 1..Len(rounds) :
           LineTriggerFires(n) => CutAtRecordedOffset(n)]_vars

\* ---- C35 -------------------------------------------------------------------

\* C35: size and lines are never negative, also after a truncation that
\* follows partial writes, where lines and the length of newLineOffsets
\* differ.
C35_CountersNonNegative == size >= 0 /\ lines >= 0

\* A truncation with a valid cut has completed after a partial write, and
\* lines exceeds the number of recorded newlines.
C35_Witness ==
    /\ RoundsInFlight = {}
    /\ lines > Len(newLineOffsets)
    /\ \E n \in 1..Len(rounds) :
           /\ rounds[n].pc = "ok"
           /\ rounds[n].before # NoCounters
           /\ rounds[n].lineIndex >= 0
           /\ rounds[n].before.lines > Len(rounds[n].before.offs)
           /\ \E m \in 1..n : rounds[m].partial

\* ---- C36 -------------------------------------------------------------------

\* Calls p and q of open() by the user overlap: q was issued before p
\* returned.
Overlap(p, q) ==
    /\ p \in opens[q].during
    /\ opens[p].owner = 0
    /\ opens[q].owner = 0

\* The descriptors that are open.
OpenDescriptors == {d \in 1..MaxFd : fdTable[d] # "closed"}

\* C36: of two overlapping calls of open() on one logger at most one
\* returns success (the other one is refused) and at most one descriptor is
\* acquired.
C36_OverlappingOpens ==
    \A p, q \in 1..Len(opens) :
        Overlap(p, q) =>
            /\ ~(opens[p].res = "ok" /\ opens[q].res = "ok")
            /\ Cardinality(OpenDescriptors) <= 1

\* ---- C37 -------------------------------------------------------------------

\* destroy() has returned without error.  Its close succeeded, so open()
\* had succeeded before destroy() was called.
Destroyed == \E k \in 1..Len(destroys) : destroys[k].res = "ok"

\* C37: once destroy() has returned without error, and until open() is
\* called again, fd is null and the log file is removed, also when a flush
\* round was in flight when destroy() was called.
C37_DestroyedStaysClosed == Destroyed => (fd = NULL /\ file = NoFile)

\* The descriptor stays null after destroy().
C37_DestroyedFdNull == Destroyed => fd = NULL

\* The file stays removed after destroy().
C37_DestroyedFileRemoved == Destroyed => file = NoFile

\* ---- C38 -------------------------------------------------------------------

\* The step in which call p of open() by the user returns success.
OpenSucceeds(p) ==
    /\ opens[p].owner = 0
    /\ opens[p].pc = "open"
    /\ OpenSucceeded(opens', p)

\* size, lines and newLineOffsets after the step are those of the file at
\* the log path after the step.
CountersDerived ==
    /\ size' = Len(file')
    /\ lines' = NewLineCount(file')
    /\ OffsetsExact(newLineOffsets', file', size')

\* C38: after every successful open(), also one that follows a successful
\* destroy(), size, lines and newLineOffsets are the values derived from the
\* file at the log path (0, 0 and empty when there was no file): no counter
\* value from before the open() survives.
C38_OpenDerivesCounters ==
    [][\A p \in 1..Len(opens) : OpenSucceeds(p) => CountersDerived]_vars

\* C38 for an open() that found a file at the log path.
C38_OpenDerivesCountersOfFile ==
    [][\A p \in 1..Len(opens) :
           (OpenSucceeds(p) /\ file # NoFile) => CountersDerived]_vars

\* ---- C39 -------------------------------------------------------------------

\* The step in which call p of open() by the user returns the error of its
\* step named step.
OpenFailsAt(p, step) ==
    /\ opens[p].owner = 0
    /\ opens[p].pc = step
    /\ OpenFailed(opens', p)

\* The fields open() may assign are, after the step, as they were when call
\* p was made.
AsAtCall(p) ==
    /\ hasOpened' = opens[p].at.opened
    /\ size' = opens[p].at.size
    /\ lines' = opens[p].at.lines
    /\ newLineOffsets' = opens[p].at.offs

\* C39: an open() that returns the error of its mkdir, readFile or fs.open
\* step leaves fd null and hasOpened, size, lines and newLineOffsets as they
\* were before the call.
C39_FailedOpenFrame ==
    [][\A p \in 1..Len(opens) :
           \A step \in {"mkdir", "read", "open"} :
               OpenFailsAt(p, step) => (fd' = NULL /\ AsAtCall(p))]_vars

\* C39 (amended): an open() that returns an error leaves fd null and
\* hasOpened unchanged; size, lines and newLineOffsets are unchanged when
\* mkdir or readFile failed or no file was found, and are those of the file
\* that was read when fs.open failed.
C39_FailedOpenKeepsScan ==
    [][\A p \in 1..Len(opens) :
           /\ \A step \in {"mkdir", "read"} :
                  OpenFailsAt(p, step) => (fd' = NULL /\ AsAtCall(p))
           /\ OpenFailsAt(p, "open") =>
                  /\ fd' = NULL
                  /\ hasOpened' = opens[p].at.opened
                  /\ IF file = NoFile THEN AsAtCall(p)
                     ELSE /\ size' = Len(file)
                          /\ lines' = NewLineCount(file)
                          /\ OffsetsExact(newLineOffsets', file, size')]_vars

\* fs.open of a call of open() failed after the file had been read: the
\* counters describe the file and differ from those at the call, and no
\* descriptor is held.
C39_Witness ==
    \E p \in 1..Len(opens) :
        /\ opens[p].owner = 0
        /\ OpenFailed(opens, p)
        /\ opens[p].res = "open"
        /\ fd = NULL
        /\ file # NoFile
        /\ size = Len(file)
        /\ size # opens[p].at.size
        /\ lines = NewLineCount(file)

====
